---- MODULE Spec2Model ----
(***************************************************************************)
(* Speech segmentation and turn taking of the AI call bot.                 *)
(*                                                                         *)
(* Three programs are modelled.                                            *)
(*   - "app copy.py": the main_loop thread, which calls                    *)
(*     listen_and_transcribe (capture loop with the hang-up and            *)
(*     confirmation timers), then dispatches on its result and speaks      *)
(*     with speak_text.  Specification Spec (FairSpec adds the fairness of *)
(*     a running thread).                                                  *)
(*   - "sip_llm_bot.py": listen_and_transcribe, whose capture loop is the  *)
(*     same segmenter without the timers, run on a tape of frames with     *)
(*     the mute flag driven by the playback side.  Specification SegSpec.  *)
(*   - audio_processor.py, conversation_manager.py and web_routes.py: the  *)
(*     ConversationManager pipeline, whose audio threads, stream callbacks,*)
(*     confirmation timers and API requests run concurrently, on a tape of *)
(*     frames.  Specification CmSpec.                                      *)
(* SessionSpec is app copy.py's main_loop beside its settings route.       *)
(*                                                                         *)
(* The frame thresholds differ between the source variants (30/40/7,       *)
(* 20/20/7, 3/5/2); they are the configuration cfg, fixed at start.        *)
(* Time is a clock of whole seconds advancing in steps of TimeUnit.        *)
(*                                                                         *)
(* The calls that can fail are the device read, Whisper, the request to    *)
(* the model, synthesis, playback, and the creation and removal of         *)
(* speak_text's temporary file.  Opening the device and the database are   *)
(* taken to succeed.  An exception no handler catches ends the thread:     *)
(* pc = "dead", crashed_by the call that raised.                           *)
(***************************************************************************)
EXTENDS Integers, Sequences, FiniteSets, TLC

VARIABLES
    cfg,                      \* [min, sil, extra]: the frame thresholds in force
    now,                      \* wall clock, seconds (datetime.datetime.now())
    tape,                     \* SegSpec, CmSpec: the frames the device will deliver
    pos,                      \* SegSpec: frames of the tape read so far
    glitches,                 \* SegSpec: failed or incomplete reads so far
    tts_playing,              \* threading.Event: set while speak_text runs
    current_conversation_id,  \* None or the conversations row id
    conversation_active,
    last_activity_timestamp,  \* None or a clock value
    confirmation_pending,
    confirmation_time,        \* None or a clock value
    conversations,            \* number of rows of table conversations
    messages,                 \* table messages: <<conversation_id, sender, text>>
    summaries,                \* ids passed to generate_and_store_summary
    buffer_frames,            \* listen_and_transcribe locals
    triggered,
    num_silent,
    num_buffered,
    extra_i,                  \* index of the for loop over EXTRA_FRAMES
    pcm_data,                 \* the clip handed to transcription
    pc,                       \* position of the thread
    transcript,               \* result of listen_and_transcribe
    reply,                    \* result of query_ollama
    speak_arg,                \* speak_text's parameter text
    speak_ret,                \* where main_loop continues after speak_text
    crashed_by,               \* the call whose exception ended main_loop
    heard,                    \* history: full frames read by the while loop in this call
    extra_heard,              \* history: full frames read by the extra-frame loop
    clips,                    \* history: clips emitted so far (SegSpec)
    saw_clear,                \* history: some loop iteration found the flag clear
    muted_iters,              \* history: iterations that found the flag set
    obs,                      \* history of the turn controller (see ObsInit)
    OLLAMA_MODEL,             \* app copy.py settings globals
    TTS_VOICE,
    CURRENT_PERSONA_KEY,
    rows,                     \* table conversations: what each row recorded at its start
    used,                     \* history: the settings the turns of the session worked with
    ses_pc,                   \* position of main_loop as the settings see it
    is_active,                \* ConversationManager.is_active
    is_listening,             \* AudioProcessor.is_listening
    is_processing,            \* AudioProcessor.is_processing (threading.Event)
    loops,                    \* the audio threads started: locals and positions (see NewLoop)
    timers,                   \* the confirmation_timer threads started (see NewTimer)
    api_pc,                   \* position of the request thread in stop_conversation
    cmh                       \* history of the ConversationManager pipeline (see CmhInit)

segVars  == <<buffer_frames, triggered, num_silent, num_buffered, extra_i, pcm_data>>
histVars == <<heard, extra_heard, clips, saw_clear, muted_iters>>
tapeVars == <<tape, pos, glitches>>
convVars == <<current_conversation_id, conversation_active, last_activity_timestamp,
              confirmation_pending, confirmation_time>>
dbVars   == <<conversations, messages, summaries>>
ctlVars  == <<pc, transcript, reply, speak_arg, speak_ret, crashed_by>>
setVars  == <<OLLAMA_MODEL, TTS_VOICE, CURRENT_PERSONA_KEY>>
sesVars  == <<setVars, rows, used, ses_pc>>
cmVars   == <<is_active, is_listening, is_processing, loops, timers, api_pc, cmh>>
auxVars  == <<sesVars, cmVars>>
vars     == <<cfg, now, tapeVars, tts_playing, convVars, dbVars, segVars, ctlVars,
              histVars, obs, auxVars>>

None == -1

-----------------------------------------------------------------------------
(* Bounds of the model *)

MaxTape    == 5     \* SegSpec: length of the frame tapes drawn at start
MaxGlitch  == 1     \* SegSpec: failed or incomplete reads per run
MaxSpin    == 2     \* SegSpec: muted iterations counted
TimeUnit   == 15    \* the clock advances in steps of TimeUnit seconds
MaxTime    == 120   \* the clock stops here
MaxTurns   == 2     \* non-empty transcripts per run
MaxSessions == 2    \* SessionSpec: conversations started per run
MaxLoops   == 2     \* CmSpec: audio threads started per run
MaxTimers  == 2     \* CmSpec: confirmation timers started per run
MaxCmTime  == 150   \* CmSpec: the clock stops here
MaxBuf     == 2     \* Spec: speech frames the caller utters per call

(* Program constants *)

AMPLITUDE_THRESHOLD     == 500
HANGUP_TIMEOUT_SECONDS  == 60
CONFIRM_TIMEOUT_SECONDS == 15

(* config.py, for the AudioProcessor / ConversationManager pipeline *)

Config_HANGUP_TIMEOUT_SECONDS  == 120
Config_CONFIRM_TIMEOUT_SECONDS == 15
FRAME_DURATION_MS == 30
MinSpeechMs       == 100   \* audio_processor.py line 103
ModerateFrames    == 20    \* audio_processor.py line 94

-----------------------------------------------------------------------------
(* Frames and the amplitude / activity gate *)

\* A frame is its peak amplitude and what webrtcvad says of it.
Quiet  == [amp |-> AMPLITUDE_THRESHOLD - 1, voiced |-> TRUE]
Noise  == [amp |-> AMPLITUDE_THRESHOLD,     voiced |-> FALSE]
Speech == [amp |-> AMPLITUDE_THRESHOLD,     voiced |-> TRUE]
FrameKinds == {Quiet, Noise, Speech}

\* is_speech of lines 455-460: below the floor is silence, else the VAD decides.
GateNoFloor(frame) == frame.voiced
Gate(frame) == IF frame.amp < AMPLITUDE_THRESHOLD THEN FALSE ELSE frame.voiced

\* The configurations: config.py's 3/5/2 and scaled-down variants.
RefConfig  == [min |-> 3, sil |-> 5, extra |-> 2]
SegConfigs == {RefConfig,
               [min |-> 2, sil |-> 1, extra |-> 1],
               [min |-> 1, sil |-> 0, extra |-> 0],
               [min |-> 3, sil |-> 1, extra |-> 2]}

\* Lines 481-484: enough frames buffered and too much silence.
EndOfUtteranceLax ==
    num_buffered' >= cfg.min /\ num_silent' >= cfg.sil
EndOfUtterance ==
    num_buffered' >= cfg.min /\ num_silent' > cfg.sil

\* Line 435: the capture loop skips the iteration while speak_text runs.
MutedNever == FALSE
Muted == tts_playing

\* Lines 462-484 on one classified frame; ended' is written by the caller from
\* EndOfUtterance, which holds only in the silence branch of a triggered loop.
SegmentFrame(frame) ==
    IF ~triggered
    THEN IF Gate(frame)
         THEN /\ triggered' = TRUE
              /\ buffer_frames' = Append(buffer_frames, frame)
              /\ num_buffered' = 1
              /\ num_silent' = 0
         ELSE UNCHANGED <<triggered, buffer_frames, num_buffered, num_silent>>
    ELSE /\ buffer_frames' = Append(buffer_frames, frame)
         /\ num_buffered' = num_buffered + 1
         /\ num_silent' = IF Gate(frame) THEN 0 ELSE num_silent + 1
         /\ UNCHANGED triggered

\* The while loop ends (line 494) in the silence branch of a triggered loop only.
LoopEnds(frame) == triggered /\ ~Gate(frame) /\ EndOfUtterance

\* What stream.read(FRAME_SIZE) does: returns a full frame, returns an
\* incomplete frame, or raises.
Full(frame) == [status |-> "full",  frame |-> frame]
ShortRead   == [status |-> "short", frame |-> Quiet]
ReadError   == [status |-> "error", frame |-> Quiet]

\* Lines 487-493: one pass of the extra-frame loop: a full frame is appended,
\* an incomplete one is not, and a read that raises leaves the loop.
ExtraReadDrop(outcome) ==
    /\ buffer_frames' = buffer_frames
    /\ extra_i' = IF outcome.status = "error" THEN cfg.extra ELSE extra_i + 1
ExtraRead(outcome) ==
    /\ buffer_frames' = IF outcome.status = "full"
                        THEN Append(buffer_frames, outcome.frame) ELSE buffer_frames
    /\ extra_i' = IF outcome.status = "error" THEN cfg.extra ELSE extra_i + 1

\* Lines 404-407: the locals of a fresh call.
FreshLocalsKeepSilence ==
    /\ buffer_frames' = <<>>
    /\ triggered' = FALSE
    /\ num_silent' = num_silent
    /\ num_buffered' = 0
FreshLocals ==
    /\ buffer_frames' = <<>>
    /\ triggered' = FALSE
    /\ num_silent' = 0
    /\ num_buffered' = 0

-----------------------------------------------------------------------------
(* History of the turn controller, kept beside the program state *)

ObsInit == [playback_end |-> None,   \* clock when speak_text last finished
            utterance_at |-> None,   \* clock of the last non-empty transcript
            transcribing |-> 0,      \* seconds spent transcribing since the later of the two
            turn_busy    |-> 0,      \* seconds spent replying or speaking since then
            turns        |-> 0,      \* non-empty transcripts so far
            answered     |-> FALSE,  \* the prompt was answered and none issued since
            turn_conv    |-> None,   \* conversation id when it was answered
            engine_failed |-> FALSE, \* the last request to the model raised
            synth_failed |-> FALSE]  \* the last synthesis of this turn raised

-----------------------------------------------------------------------------
(* app copy.py: the settings globals and what a conversation recorded *)

DefaultModel == "llama3.2"
DefaultVoice == "en-US-JennyNeural"

\* The values the settings form can post; "" is a field left empty.
Models   == {"llama3.2", "mistral"}
Voices   == {"en-US-JennyNeural", "en-GB-SoniaNeural"}
PERSONAS == {"helpful", "flirty"}

NoUse == [conversation_id |-> None, persona_key |-> "", llm_model |-> "", tts_voice |-> ""]

\* Lines 37, 93 and 105: the globals at start, no conversation yet.
SesInit ==
    /\ OLLAMA_MODEL = DefaultModel
    /\ TTS_VOICE = DefaultVoice
    /\ CURRENT_PERSONA_KEY = "helpful"
    /\ rows = <<>>
    /\ used = NoUse
    /\ ses_pc = "idle"

\* ConversationManager.__init__ (lines 24-28) and AudioProcessor.__init__
\* (lines 23-29): nothing active, no thread started.
CmhInit == [ended    |-> <<>>,    \* <<len(frames), silent_frames>> at the last end of utterance
            echo     |-> FALSE,   \* a frame was buffered or ended an utterance while the TTS flag was set
            answered |-> None,    \* the conversation in which an utterance was taken up while the confirmation was pending
            ended_by |-> <<>>,    \* <<the timer's conversation, the conversation it ended, seconds since its prompt>>
            turn_done |-> None,   \* clock when the last reply was played, until on_hangup is called
            hangup_after |-> None, \* seconds from turn_done to the last call of on_hangup
            discarded |-> 0]      \* frames of the last buffer cleared without being processed

CmIdle ==
    /\ is_active = FALSE
    /\ is_listening = FALSE
    /\ is_processing = FALSE
    /\ loops = <<>>
    /\ timers = <<>>
    /\ api_pc = "idle"
    /\ cmh = CmhInit

AuxInit == SesInit /\ CmIdle

-----------------------------------------------------------------------------
(* sip_llm_bot.py: listen_and_transcribe on a tape of frames *)

\* [silence x5, speech x4, silence x6], then two readable frames.
RefScenario == [i \in 1..15 |-> IF i <= 5 THEN Quiet
                                ELSE IF i <= 9 THEN Speech ELSE Noise]
RefTapes == {RefScenario \o <<x, y>> : x, y \in FrameKinds}
Tapes    == [1..MaxTape -> FrameKinds] \cup RefTapes

\* What stream.read can do now: raise, return an incomplete frame, or return
\* the next frame of the tape.
TapeOutcomes ==
    (IF glitches < MaxGlitch THEN {ReadError, ShortRead} ELSE {})
    \cup (IF pos < Len(tape) THEN {Full(tape[pos + 1])} ELSE {})

\* The effect of one read on the device.
Consume(outcome) ==
    IF outcome.status = "full"
    THEN pos' = pos + 1 /\ UNCHANGED <<tape, glitches>>
    ELSE glitches' = glitches + 1 /\ UNCHANGED <<tape, pos>>

SegInit ==
    /\ AuxInit
    /\ cfg \in SegConfigs
    /\ tape \in Tapes
    /\ pos = 0
    /\ glitches = 0
    /\ tts_playing \in BOOLEAN
    /\ now = 0
    /\ current_conversation_id = None
    /\ conversation_active = FALSE
    /\ last_activity_timestamp = None
    /\ confirmation_pending = FALSE
    /\ confirmation_time = None
    /\ conversations = 0
    /\ messages = <<>>
    /\ summaries = <<>>
    /\ buffer_frames = <<>>
    /\ triggered = FALSE
    /\ num_silent = 0
    /\ num_buffered = 0
    /\ extra_i = 0
    /\ pcm_data = <<>>
    /\ pc = "sip_listen"
    /\ transcript = ""
    /\ reply = ""
    /\ speak_arg = ""
    /\ speak_ret = ""
    /\ crashed_by = ""
    /\ heard = <<>>
    /\ extra_heard = <<>>
    /\ clips = <<>>
    /\ saw_clear = FALSE
    /\ muted_iters = 0
    /\ obs = ObsInit

\* Lines 190-202: a call begins with fresh locals and an open stream.
SipListen ==
    /\ pc = "sip_listen"
    /\ UNCHANGED auxVars
    /\ FreshLocals
    /\ extra_i' = 0
    /\ heard' = <<>>
    /\ extra_heard' = <<>>
    /\ pc' = "sip_capture"
    /\ UNCHANGED <<cfg, now, tapeVars, tts_playing, convVars, dbVars, pcm_data,
                   transcript, reply, speak_arg, speak_ret, crashed_by,
                   clips, saw_clear, muted_iters, obs>>

\* Lines 203-262: one iteration of the while loop.
SipCapture ==
    /\ pc = "sip_capture"
    /\ UNCHANGED auxVars
    /\ saw_clear' = (saw_clear \/ ~tts_playing)
    /\ IF Muted
       THEN /\ muted_iters' = IF muted_iters < MaxSpin THEN muted_iters + 1 ELSE muted_iters
            /\ UNCHANGED <<tapeVars, segVars, pc, heard>>
       ELSE /\ UNCHANGED muted_iters
            /\ \E outcome \in TapeOutcomes :
                 /\ Consume(outcome)
                 /\ IF outcome.status = "full"
                    THEN /\ heard' = Append(heard, outcome.frame)
                         /\ SegmentFrame(outcome.frame)
                         /\ pc' = IF LoopEnds(outcome.frame)
                                  THEN (IF cfg.extra = 0 THEN "sip_emit" ELSE "sip_extra")
                                  ELSE pc
                         /\ UNCHANGED <<extra_i, pcm_data>>
                    ELSE UNCHANGED <<segVars, pc, heard>>
    /\ UNCHANGED <<cfg, now, tts_playing, convVars, dbVars,
                   transcript, reply, speak_arg, speak_ret, crashed_by,
                   extra_heard, clips, obs>>

\* Lines 255-262: one pass of the extra-frame loop; no mute check here.
SipExtra ==
    /\ pc = "sip_extra"
    /\ UNCHANGED auxVars
    /\ \E outcome \in TapeOutcomes :
         /\ Consume(outcome)
         /\ ExtraRead(outcome)
         /\ extra_heard' = IF outcome.status = "full"
                           THEN Append(extra_heard, outcome.frame) ELSE extra_heard
    /\ pc' = IF extra_i' >= cfg.extra THEN "sip_emit" ELSE pc
    /\ UNCHANGED <<cfg, now, tts_playing, convVars, dbVars,
                   triggered, num_silent, num_buffered, pcm_data,
                   transcript, reply, speak_arg, speak_ret, crashed_by,
                   heard, clips, saw_clear, muted_iters, obs>>

\* Lines 264-269: the buffered frames become the clip; the locals are reset.
SipEmit ==
    /\ pc = "sip_emit"
    /\ UNCHANGED auxVars
    /\ pcm_data' = buffer_frames
    /\ clips' = Append(clips, buffer_frames)
    /\ FreshLocals
    /\ pc' = "sip_transcribe"
    /\ UNCHANGED <<cfg, now, tapeVars, tts_playing, convVars, dbVars, extra_i,
                   transcript, reply, speak_arg, speak_ret, crashed_by,
                   heard, extra_heard, saw_clear, muted_iters, obs>>

\* Lines 271-285 and main_loop 379-387: Whisper returns a transcript, or raises
\* and ends the thread; main_loop then calls listen_and_transcribe again.
SipTranscribe ==
    /\ pc = "sip_transcribe"
    /\ UNCHANGED auxVars
    /\ \E outcome \in {"hello", "", "raise"} :
         IF outcome = "raise"
         THEN pc' = "dead" /\ crashed_by' = "transcribe" /\ UNCHANGED transcript
         ELSE pc' = "sip_listen" /\ transcript' = outcome /\ UNCHANGED crashed_by
    /\ UNCHANGED <<cfg, now, tapeVars, tts_playing, convVars, dbVars, segVars,
                   reply, speak_arg, speak_ret, histVars, obs>>

\* Lines 343 and 364: the playback side sets and clears the flag; the loop
\* sees the flag where it tests it, at the head of an iteration.
PlaybackSide ==
    /\ pc = "sip_capture"
    /\ UNCHANGED auxVars
    /\ tts_playing' = ~tts_playing
    /\ UNCHANGED <<cfg, now, tapeVars, convVars, dbVars, segVars, ctlVars,
                   histVars, obs>>

SegNext ==
    \/ SipListen
    \/ SipCapture
    \/ SipExtra
    \/ SipEmit
    \/ SipTranscribe
    \/ PlaybackSide

SegSpec == SegInit /\ [][SegNext]_vars

-----------------------------------------------------------------------------
(* app copy.py: the main_loop thread *)

\* The thresholds of this run, and the frames the device can deliver.
SpecConfig == [min |-> 2, sil |-> 1, extra |-> 1]
SpecFrames == {Quiet, Speech}

\* Lines 420-425 (A): the confirmation has been pending for too long.
ConfirmTimedOut ==
    /\ confirmation_pending
    /\ confirmation_time # None
    /\ now - confirmation_time > CONFIRM_TIMEOUT_SECONDS

\* Lines 427-432 (B): an active conversation has been idle for too long.
HangupDue ==
    /\ conversation_active
    /\ ~confirmation_pending
    /\ last_activity_timestamp # None
    /\ now - last_activity_timestamp > HANGUP_TIMEOUT_SECONDS

\* What stream.read can return in the while loop: an utterance is at most
\* MaxBuf frames of speech long.
ReadOutcomes ==
    {ReadError, ShortRead}
    \cup {Full(f) : f \in {g \in SpecFrames : Gate(g) => num_buffered < MaxBuf}}

\* Line 600: speak_text ends by restarting the idle clock.
ActivityKeptStale == last_activity_timestamp
ActivityAfterPlayback == now

\* Lines 548-550: the reply when the request to the model raised.
EmptyReply == ""
FallbackReply == "Sorry, I encountered an error."

\* Lines 590-593: where speak_text goes on when synthesis raised.
SynthFailurePlays == "speak_play"
AfterSynthFailure == "speak_finally"

\* Lines 649-652: a real utterance clears a pending confirmation.
PendingKept == confirmation_pending
PendingAfterUtterance == FALSE

\* Line 642: the end of a session clears the pending confirmation.
PendingAfterTimeout == FALSE

\* Line 517: only a non-empty transcript counts as something said.
AnyTranscript(text) == TRUE
RealSpeech(text) == text # ""

\* Whisper on the clip (lines 511-516): a transcript, nothing, or an exception;
\* at most MaxTurns non-empty transcripts per run.
TranscribeOutcomes ==
    {"", "raise"} \cup (IF obs.turns < MaxTurns THEN {"hello"} ELSE {})

\* insert_message, lines 217-229.
insert_message(conversation_id, sender, text) == <<conversation_id, sender, text>>

\* The pcs of speak_text, and those of a call of listen_and_transcribe.
SpeakPcs  == {"speak_begin", "speak_synth", "speak_play", "speak_finally"}
ListenPcs == {"listen", "capture", "extra", "clip", "transcribe"}

Init ==
    /\ AuxInit
    /\ cfg = SpecConfig
    /\ tape = <<>>
    /\ pos = 0
    /\ glitches = 0
    /\ tts_playing = FALSE
    /\ now = 0
    /\ current_conversation_id = None
    /\ conversation_active = FALSE
    /\ last_activity_timestamp = None
    /\ confirmation_pending = FALSE
    /\ confirmation_time = None
    /\ conversations = 0
    /\ messages = <<>>
    /\ summaries = <<>>
    /\ buffer_frames = <<>>
    /\ triggered = FALSE
    /\ num_silent = 0
    /\ num_buffered = 0
    /\ extra_i = 0
    /\ pcm_data = <<>>
    /\ pc = "listen"
    /\ transcript = ""
    /\ reply = ""
    /\ speak_arg = ""
    /\ speak_ret = ""
    /\ crashed_by = ""
    /\ heard = <<>>
    /\ extra_heard = <<>>
    /\ clips = <<>>
    /\ saw_clear = FALSE
    /\ muted_iters = 0
    /\ obs = ObsInit

\* The calls the thread waits in: a device read, Whisper, the request to the
\* model, synthesis and playback.
WaitPcs == {"capture", "extra", "transcribe", "query", "speak_synth", "speak_play"}

\* Time passes while the thread waits.
Tick ==
    /\ pc \in WaitPcs
    /\ UNCHANGED auxVars
    /\ now + TimeUnit <= MaxTime
    /\ now' = now + TimeUnit
    /\ obs' = [obs EXCEPT
                 !.transcribing = IF pc = "transcribe" THEN @ + TimeUnit ELSE @,
                 !.turn_busy    = IF pc \in SpeakPcs \cup {"query"} THEN @ + TimeUnit ELSE @]
    /\ UNCHANGED <<cfg, tapeVars, tts_playing, convVars, dbVars, segVars, ctlVars,
                   histVars>>

\* Lines 404-416: main_loop (line 618) calls listen_and_transcribe.
Listen ==
    /\ pc = "listen"
    /\ UNCHANGED auxVars
    /\ FreshLocals
    /\ extra_i' = 0
    /\ pc' = "capture"
    /\ obs' = [obs EXCEPT !.synth_failed = FALSE]
    /\ UNCHANGED <<cfg, now, tapeVars, tts_playing, convVars, dbVars, pcm_data,
                   transcript, reply, speak_arg, speak_ret, crashed_by,
                   histVars>>

\* Lines 417-494: one iteration of the while loop: the two timers, the mute
\* test, the read, the gate and the segmenter.
Capture ==
    /\ pc = "capture"
    /\ UNCHANGED auxVars
    /\ IF ConfirmTimedOut
       THEN /\ transcript' = "__CONFIRM_TIMEOUT__"
            /\ pc' = "dispatch"
            /\ UNCHANGED segVars
       ELSE IF HangupDue
       THEN /\ transcript' = "__HANGUP__"
            /\ pc' = "dispatch"
            /\ UNCHANGED segVars
       ELSE IF Muted
       THEN UNCHANGED <<segVars, pc, transcript>>
       ELSE \E outcome \in ReadOutcomes :
              IF outcome.status = "full"
              THEN /\ SegmentFrame(outcome.frame)
                   /\ pc' = IF LoopEnds(outcome.frame)
                            THEN (IF cfg.extra = 0 THEN "clip" ELSE "extra")
                            ELSE pc
                   /\ UNCHANGED <<extra_i, pcm_data, transcript>>
              ELSE UNCHANGED <<segVars, pc, transcript>>
    /\ UNCHANGED <<cfg, now, tapeVars, tts_playing, convVars, dbVars,
                   reply, speak_arg, speak_ret, crashed_by, histVars, obs>>

\* Lines 487-493: one pass of the extra-frame loop.
Extra ==
    /\ pc = "extra"
    /\ UNCHANGED auxVars
    /\ \E outcome \in {ReadError, ShortRead} \cup {Full(f) : f \in SpecFrames} :
         ExtraRead(outcome)
    /\ pc' = IF extra_i' >= cfg.extra THEN "clip" ELSE pc
    /\ UNCHANGED <<cfg, now, tapeVars, tts_playing, convVars, dbVars,
                   triggered, num_silent, num_buffered, pcm_data,
                   transcript, reply, speak_arg, speak_ret, crashed_by,
                   histVars, obs>>

\* Lines 496-509: the buffered frames become the clip; the locals are reset.
Clip ==
    /\ pc = "clip"
    /\ UNCHANGED auxVars
    /\ pcm_data' = buffer_frames
    /\ FreshLocals
    /\ pc' = "transcribe"
    /\ UNCHANGED <<cfg, now, tapeVars, tts_playing, convVars, dbVars, extra_i,
                   transcript, reply, speak_arg, speak_ret, crashed_by,
                   histVars, obs>>

\* Lines 511-520: Whisper runs outside any try; a non-empty transcript restarts
\* the idle clock; the function returns and its locals are gone.
Transcribe ==
    /\ pc = "transcribe"
    /\ UNCHANGED auxVars
    /\ \E outcome \in TranscribeOutcomes :
         IF outcome = "raise"
         THEN /\ pc' = "dead"
              /\ crashed_by' = "transcribe"
              /\ UNCHANGED <<transcript, last_activity_timestamp, pcm_data, obs>>
         ELSE /\ pc' = "dispatch"
              /\ transcript' = outcome
              /\ pcm_data' = <<>>
              /\ UNCHANGED crashed_by
              /\ IF RealSpeech(outcome)
                 THEN /\ last_activity_timestamp' = now
                      /\ obs' = [obs EXCEPT
                                   !.utterance_at = now,
                                   !.transcribing = 0,
                                   !.turn_busy = 0,
                                   !.turns = @ + 1,
                                   !.answered = IF confirmation_pending THEN TRUE ELSE @,
                                   !.turn_conv = IF confirmation_pending
                                                 THEN current_conversation_id ELSE @]
                 ELSE UNCHANGED <<last_activity_timestamp, obs>>
    /\ UNCHANGED <<cfg, now, tapeVars, tts_playing, current_conversation_id,
                   conversation_active, confirmation_pending, confirmation_time,
                   dbVars, buffer_frames, triggered, num_silent, num_buffered, extra_i,
                   reply, speak_arg, speak_ret, histVars>>

\* A call speak_text(text) by main_loop, which goes on at ret when it returns.
CallSpeak(text, ret) ==
    /\ speak_arg' = text
    /\ speak_ret' = ret
    /\ pc' = "speak_begin"

\* Lines 621-633, up to the call of speak_text.
DispatchHangup ==
    /\ pc = "dispatch"
    /\ UNCHANGED auxVars
    /\ transcript = "__HANGUP__"
    /\ IF conversation_active /\ ~confirmation_pending
       THEN /\ messages' = Append(messages,
                   insert_message(current_conversation_id, "assistant", "Are you still there?"))
            /\ CallSpeak("Are you still there?", "prompted")
       ELSE /\ pc' = "listen"
            /\ UNCHANGED <<messages, speak_arg, speak_ret>>
    /\ UNCHANGED <<cfg, now, tapeVars, tts_playing, convVars, conversations, summaries,
                   segVars, transcript, reply, crashed_by, histVars, obs>>

\* Lines 628-633: after the prompt was spoken.
Prompted ==
    /\ pc = "prompted"
    /\ UNCHANGED auxVars
    /\ confirmation_pending' = TRUE
    /\ confirmation_time' = now
    /\ last_activity_timestamp' = now
    /\ pc' = "listen"
    /\ obs' = [obs EXCEPT !.answered = FALSE, !.turn_conv = None]
    /\ UNCHANGED <<cfg, now, tapeVars, tts_playing, current_conversation_id,
                   conversation_active, dbVars, segVars,
                   transcript, reply, speak_arg, speak_ret, crashed_by, histVars>>

\* Lines 635-643: the confirmation timed out; generate_and_store_summary
\* (lines 300-387) catches the failures of its two requests.
DispatchConfirmTimeout ==
    /\ pc = "dispatch"
    /\ UNCHANGED auxVars
    /\ transcript = "__CONFIRM_TIMEOUT__"
    /\ IF confirmation_pending
       THEN /\ summaries' = IF current_conversation_id # None
                            THEN Append(summaries, current_conversation_id)
                            ELSE summaries
            /\ conversation_active' = FALSE
            /\ confirmation_pending' = PendingAfterTimeout
       ELSE UNCHANGED <<summaries, conversation_active, confirmation_pending>>
    /\ pc' = "listen"
    /\ UNCHANGED <<cfg, now, tapeVars, tts_playing, current_conversation_id,
                   last_activity_timestamp, confirmation_time, conversations, messages,
                   segVars, transcript, reply, speak_arg, speak_ret, crashed_by,
                   histVars, obs>>

\* Lines 645-647: nothing was said.
DispatchEmpty ==
    /\ pc = "dispatch"
    /\ UNCHANGED auxVars
    /\ transcript = ""
    /\ pc' = "listen"
    /\ UNCHANGED <<cfg, now, tapeVars, tts_playing, convVars, dbVars, segVars,
                   transcript, reply, speak_arg, speak_ret, crashed_by, histVars, obs>>

\* Lines 649-676, up to the first call of speak_text: a real utterance clears a
\* pending confirmation, starts a conversation if none is active
\* (start_new_conversation, lines 195-215) and is stored.
DispatchUtterance ==
    /\ pc = "dispatch"
    /\ UNCHANGED auxVars
    /\ transcript \notin {"", "__HANGUP__", "__CONFIRM_TIMEOUT__"}
    /\ IF ~conversation_active
       THEN /\ conversations' = conversations + 1
            /\ current_conversation_id' = conversations + 1
            /\ conversation_active' = TRUE
            /\ confirmation_pending' = FALSE
            /\ last_activity_timestamp' = now
            /\ messages' = messages \o
                  << insert_message(conversations + 1, "user", transcript),
                     insert_message(conversations + 1, "assistant", "Hello!") >>
            /\ CallSpeak("Hello!", "greeted")
       ELSE /\ confirmation_pending' = IF confirmation_pending
                                       THEN PendingAfterUtterance ELSE confirmation_pending
            /\ messages' = messages \o
                  << insert_message(current_conversation_id, "user", transcript),
                     insert_message(current_conversation_id, "assistant", "I heard you.") >>
            /\ CallSpeak("I heard you.", "heard_fb")
            /\ UNCHANGED <<conversations, current_conversation_id, conversation_active,
                           last_activity_timestamp>>
    /\ UNCHANGED <<cfg, now, tapeVars, tts_playing, confirmation_time, summaries,
                   segVars, transcript, reply, crashed_by, histVars, obs>>

\* Lines 673-676, after the greeting of a new conversation.
Greeted ==
    /\ pc = "greeted"
    /\ UNCHANGED auxVars
    /\ messages' = Append(messages,
            insert_message(current_conversation_id, "assistant", "I heard you."))
    /\ CallSpeak("I heard you.", "heard_fb")
    /\ UNCHANGED <<cfg, now, tapeVars, tts_playing, convVars, conversations, summaries,
                   segVars, transcript, reply, crashed_by, histVars, obs>>

\* Lines 678-681.
HeardFb ==
    /\ pc = "heard_fb"
    /\ UNCHANGED auxVars
    /\ messages' = Append(messages,
            insert_message(current_conversation_id, "assistant", "Let me think..."))
    /\ CallSpeak("Let me think...", "query")
    /\ UNCHANGED <<cfg, now, tapeVars, tts_playing, convVars, conversations, summaries,
                   segVars, transcript, reply, crashed_by, histVars, obs>>

\* Lines 684-687 with query_ollama (lines 522-556): the model answers, answers
\* nothing, or the request fails and the fallback text is the reply.
Query ==
    /\ pc = "query"
    /\ UNCHANGED auxVars
    /\ \E outcome \in {"Sure.", "", "fail"} :
         /\ reply' = IF outcome = "fail" THEN FallbackReply ELSE outcome
         /\ obs' = [obs EXCEPT !.engine_failed = (outcome = "fail")]
         /\ messages' = IF reply' # "" /\ conversation_active /\ current_conversation_id # None
                        THEN Append(messages,
                                 insert_message(current_conversation_id, "assistant", reply'))
                        ELSE messages
         /\ CallSpeak(reply', "listen")
    /\ UNCHANGED <<cfg, now, tapeVars, tts_playing, convVars, conversations, summaries,
                   segVars, transcript, crashed_by, histVars>>

\* Lines 571-580: the flag is set, then the temporary file is made, outside
\* the try.
SpeakBegin ==
    /\ pc = "speak_begin"
    /\ UNCHANGED auxVars
    /\ tts_playing' = TRUE
    /\ \E outcome \in {"ok", "raise"} :
         IF outcome = "raise"
         THEN pc' = "dead" /\ crashed_by' = "tempfile"
         ELSE pc' = "speak_synth" /\ UNCHANGED crashed_by
    /\ UNCHANGED <<cfg, now, tapeVars, convVars, dbVars, segVars,
                   transcript, reply, speak_arg, speak_ret, histVars, obs>>

\* Lines 582-591: synthesis; its exception is caught and logged.
SpeakSynth ==
    /\ pc = "speak_synth"
    /\ UNCHANGED auxVars
    /\ \E outcome \in {"ok", "raise"} :
         /\ pc' = IF outcome = "raise" THEN AfterSynthFailure ELSE "speak_play"
         /\ obs' = [obs EXCEPT !.synth_failed = (outcome = "raise")]
    /\ UNCHANGED <<cfg, now, tapeVars, tts_playing, convVars, dbVars, segVars,
                   transcript, reply, speak_arg, speak_ret, crashed_by, histVars>>

\* Lines 586-591: playback; its exception is caught and logged.
SpeakPlay ==
    /\ pc = "speak_play"
    /\ UNCHANGED auxVars
    /\ pc' = "speak_finally"
    /\ UNCHANGED <<cfg, now, tapeVars, tts_playing, convVars, dbVars, segVars,
                   transcript, reply, speak_arg, speak_ret, crashed_by, histVars, obs>>

\* Lines 593-600: the file is removed, then the flag is cleared and the idle
\* clock restarted; an exception of os.remove leaves the finally block at once.
SpeakFinally ==
    /\ pc = "speak_finally"
    /\ UNCHANGED auxVars
    /\ \E outcome \in {"ok", "raise"} :
         IF outcome = "raise"
         THEN /\ pc' = "dead"
              /\ crashed_by' = "remove"
              /\ UNCHANGED <<tts_playing, last_activity_timestamp, obs>>
         ELSE /\ tts_playing' = FALSE
              /\ last_activity_timestamp' = ActivityAfterPlayback
              /\ pc' = speak_ret
              /\ obs' = [obs EXCEPT !.playback_end = now,
                                    !.transcribing = 0,
                                    !.turn_busy = 0]
              /\ UNCHANGED crashed_by
    /\ UNCHANGED <<cfg, now, tapeVars, current_conversation_id, conversation_active,
                   confirmation_pending, confirmation_time, dbVars, segVars,
                   transcript, reply, speak_arg, speak_ret, histVars>>

\* The steps of the main_loop thread (started at line 937).
Thread ==
    \/ Listen
    \/ Capture
    \/ Extra
    \/ Clip
    \/ Transcribe
    \/ DispatchHangup
    \/ Prompted
    \/ DispatchConfirmTimeout
    \/ DispatchEmpty
    \/ DispatchUtterance
    \/ Greeted
    \/ HeardFb
    \/ Query
    \/ SpeakBegin
    \/ SpeakSynth
    \/ SpeakPlay
    \/ SpeakFinally

Next == Tick \/ Thread

Spec == Init /\ [][Next]_vars

\* A thread that can take a step eventually takes one.
FairSpec == Init /\ [][Next]_vars /\ WF_vars(Thread)

-----------------------------------------------------------------------------
(* app copy.py: the settings page beside a live conversation *)

\* Python's "x or d" on strings.
Or(x, d) == IF x = "" THEN d ELSE x

\* What main_loop leaves unchanged as the settings see it.
sesFrame == <<cfg, now, tapeVars, tts_playing, last_activity_timestamp,
              confirmation_pending, confirmation_time, dbVars, segVars, ctlVars,
              histVars, obs, cmVars>>

\* Lines 654-657 with start_new_conversation (lines 195-215): the row records
\* the model, the voice and the persona of the moment.
SesStart ==
    /\ ses_pc = "idle"
    /\ Len(rows) < MaxSessions
    /\ rows' = Append(rows, [llm_model   |-> Or(OLLAMA_MODEL, DefaultModel),
                             tts_voice   |-> Or(TTS_VOICE, DefaultVoice),
                             persona_key |-> CURRENT_PERSONA_KEY])
    /\ current_conversation_id' = Len(rows) + 1
    /\ conversation_active' = TRUE
    /\ used' = [NoUse EXCEPT !.conversation_id = Len(rows) + 1]
    /\ ses_pc' = "feedback"
    /\ UNCHANGED <<sesFrame, setVars>>

\* speak_text, lines 571-584: the voice is the global TTS_VOICE of the moment
\* (the greeting and feedback of a turn, then its reply).
SesSpeak ==
    /\ ses_pc \in {"feedback", "reply"}
    /\ TTS_VOICE' = Or(TTS_VOICE, DefaultVoice)
    /\ used' = [used EXCEPT !.tts_voice = TTS_VOICE']
    /\ ses_pc' = IF ses_pc = "feedback" THEN "query" ELSE "listen"
    /\ UNCHANGED <<sesFrame, current_conversation_id, conversation_active,
                   OLLAMA_MODEL, CURRENT_PERSONA_KEY, rows>>

\* query_ollama, lines 522-538: persona and model are the globals of the moment.
SesQuery ==
    /\ ses_pc = "query"
    /\ used' = [used EXCEPT !.persona_key = CURRENT_PERSONA_KEY,
                            !.llm_model = Or(OLLAMA_MODEL, DefaultModel)]
    /\ ses_pc' = "reply"
    /\ UNCHANGED <<sesFrame, current_conversation_id, conversation_active,
                   setVars, rows>>

\* Lines 668-671: the next utterance of the conversation.
SesUtterance ==
    /\ ses_pc = "listen"
    /\ ses_pc' = "feedback"
    /\ UNCHANGED <<sesFrame, current_conversation_id, conversation_active,
                   setVars, rows, used>>

\* Lines 635-643: the conversation ends.
SesEnd ==
    /\ ses_pc = "listen"
    /\ conversation_active' = FALSE
    /\ ses_pc' = "idle"
    /\ UNCHANGED <<sesFrame, current_conversation_id, setVars, rows, used>>

\* settings, lines 846-862: a POST of the form, on a request thread; a field
\* left empty and an unknown persona change nothing.
SettingsPost ==
    \E new_model \in Models \cup {""}, new_voice \in Voices \cup {""},
       new_persona \in PERSONAS \cup {"", "unknown"} :
        /\ OLLAMA_MODEL' = IF new_model # "" THEN new_model ELSE OLLAMA_MODEL
        /\ TTS_VOICE' = IF new_voice # "" THEN new_voice ELSE TTS_VOICE
        /\ CURRENT_PERSONA_KEY' = IF new_persona \in PERSONAS
                                  THEN new_persona ELSE CURRENT_PERSONA_KEY
        /\ UNCHANGED <<sesFrame, current_conversation_id, conversation_active,
                       rows, used, ses_pc>>

SessionNext ==
    \/ SesStart
    \/ SesSpeak
    \/ SesQuery
    \/ SesUtterance
    \/ SesEnd
    \/ SettingsPost

SessionSpec == Init /\ [][SessionNext]_vars

-----------------------------------------------------------------------------
(* The AudioProcessor / ConversationManager pipeline (audio_processor.py,
   conversation_manager.py, web_routes.py).  Its threads: the request thread
   of the two API routes, one audio thread per start_conversation (the 0.1 s
   polling loop of listen_and_transcribe), the callback thread of each open
   input stream (audio_callback, which also runs the turn and on_hangup), and
   one thread per confirmation_timer.  The manager's fields and the database
   are the variables current_conversation_id, confirmation_pending,
   conversations, messages and summaries; the processor's TTS flag is
   tts_playing.  The thresholds are config.py's, RefConfig. *)

Config_AMPLITUDE_THRESHOLD == 100

\* The frames the microphone delivers: below the amplitude floor, or at it and
\* voiced or not for the VAD.
CmQuiet  == [amp |-> Config_AMPLITUDE_THRESHOLD - 1, voiced |-> TRUE]
CmNoise  == [amp |-> Config_AMPLITUDE_THRESHOLD,     voiced |-> FALSE]
CmVoiced == [amp |-> Config_AMPLITUDE_THRESHOLD,     voiced |-> TRUE]

Run(f, n) == [i \in 1..n |-> f]

\* What the caller does during a run: an utterance of just over 0.1 s and the
\* silence that ends it, as loud or as quiet frames; an utterance of
\* MIN_UTTERANCE_FRAMES frames; one loud frame; nothing.
CmTapes ==
    {Run(CmVoiced, RefConfig.min + 1) \o Run(CmNoise, RefConfig.sil + 1),
     Run(CmVoiced, RefConfig.min + 1) \o Run(CmQuiet, RefConfig.sil) \o <<CmNoise>>,
     Run(CmVoiced, RefConfig.min) \o Run(CmNoise, RefConfig.sil),
     <<CmNoise>>,
     <<>>}

\* An audio thread as start_conversation creates it (lines 40-44): poll is the
\* position of the thread, cb that of its stream's callback thread, frames the
\* length of the list frames; conv remembers the conversation in which
\* on_hangup, on either thread, speaks the prompt.
NewLoop == [poll |-> "start", cb |-> "off", frames |-> 0, silent_frames |-> 0,
            last_speech_time |-> None, conv |-> [poll |-> None, cb |-> None]]

\* A confirmation_timer thread as on_hangup starts it (lines 131-137); conv is
\* the conversation its prompt was spoken in.
NewTimer(conv) == [pc |-> "sleeping", started |-> now, conv |-> conv]

ConfirmationMsg == "Are you still there?"

\* What the pipeline leaves unchanged.
cmFrame == <<cfg, tapeVars, conversation_active, last_activity_timestamp,
             confirmation_time, segVars, ctlVars, histVars, obs, sesVars>>

\* insert_message behind "if self.current_conversation_id:" (lines 75-76,
\* 87-89, 120-121).
StoreIfCurrent(msgs, sender, text) ==
    IF current_conversation_id # None
    THEN Append(msgs, insert_message(current_conversation_id, sender, text))
    ELSE msgs

\* start_conversation, lines 30-44.
start_conversation ==
    /\ Len(loops) < MaxLoops
    /\ conversations' = conversations + 1
    /\ current_conversation_id' = conversations + 1
    /\ is_active' = TRUE
    /\ confirmation_pending' = FALSE
    /\ loops' = Append(loops, NewLoop)

\* stop_conversation, lines 46-61, has no assignment to is_active.
InactiveAfterStop == FALSE
ActiveAfterStop == is_active

\* generate_and_store_summary as stop_conversation calls it, lines 48-54: an
\* exception is logged and the summary is missing.
Summarised(ok) ==
    IF current_conversation_id # None /\ ok
    THEN Append(summaries, current_conversation_id)
    ELSE summaries

\* The seconds since the last reply was played, None before the first.
SinceTurn(h) == IF h.turn_done = None THEN None ELSE now - h.turn_done

\* The hang-up check of lines 119-120 and 139-140.
HangupTimedOut(last_speech_time, processing) ==
    /\ now - last_speech_time > Config_HANGUP_TIMEOUT_SECONDS
    /\ ~processing

\* Time passes, before the caller's frames or after them (they take less than
\* a second).
CmTick ==
    /\ pos \in {0, Len(tape)}
    /\ now + TimeUnit <= MaxCmTime
    /\ now' = now + TimeUnit
    /\ UNCHANGED <<cmFrame, tts_playing, current_conversation_id,
                   confirmation_pending, dbVars, cmVars>>

\* api_start_conversation, web_routes.py lines 174-182.
ApiStart ==
    /\ api_pc = "idle"
    /\ ~is_active
    /\ start_conversation
    /\ UNCHANGED <<cmFrame, now, tts_playing, messages, summaries, is_listening,
                   is_processing, timers, api_pc, cmh>>

\* api_stop_conversation, web_routes.py lines 184-194, up to the summary of
\* stop_conversation (lines 48-54).
ApiStop ==
    /\ api_pc = "idle"
    /\ is_active
    /\ Len(loops) < MaxLoops
    /\ \E ok \in BOOLEAN : summaries' = Summarised(ok)
    /\ is_active' = ActiveAfterStop
    /\ api_pc' = "restart"
    /\ UNCHANGED <<cmFrame, now, tts_playing, current_conversation_id,
                   confirmation_pending, conversations, messages,
                   is_listening, is_processing, loops, timers, cmh>>

\* The rest of stop_conversation, lines 56-61, on the request thread.
ApiRestart ==
    /\ api_pc = "restart"
    /\ IF is_active
       THEN start_conversation
       ELSE /\ current_conversation_id' = None
            /\ UNCHANGED <<conversations, is_active, confirmation_pending, loops>>
    /\ api_pc' = "idle"
    /\ UNCHANGED <<cmFrame, now, tts_playing, messages, summaries, is_listening,
                   is_processing, timers, cmh>>

\* The audio thread enters listen_and_transcribe, lines 50-58 and 125-133: the
\* locals are fresh and the stream opens.
PollStart(i) ==
    /\ i \in DOMAIN loops
    /\ loops[i].poll = "start"
    /\ is_listening' = TRUE
    /\ loops' = [loops EXCEPT ![i] = [@ EXCEPT !.poll = "poll", !.cb = "idle",
                                               !.last_speech_time = now]]
    /\ UNCHANGED <<cmFrame, now, tts_playing, current_conversation_id,
                   confirmation_pending, dbVars, is_active, is_processing,
                   timers, api_pc, cmh>>

\* One iteration of the polling loop, lines 135-143, with on_hangup up to
\* set_tts_playing(True) (conversation_manager.py lines 114-124 and 147).
PollCheck(i) ==
    /\ i \in DOMAIN loops
    /\ loops[i].poll = "poll"
    /\ IF ~is_listening
       THEN /\ loops' = [loops EXCEPT ![i].poll = "closing"]
            /\ UNCHANGED <<messages, tts_playing, cmh>>
       ELSE IF HangupTimedOut(loops[i].last_speech_time, is_processing)
       THEN IF ~confirmation_pending
            THEN /\ messages' = StoreIfCurrent(messages, "assistant", ConfirmationMsg)
                 /\ tts_playing' = TRUE
                 /\ loops' = [loops EXCEPT ![i] = [@ EXCEPT
                                  !.poll = "hangup_speaking",
                                  !.conv.poll = current_conversation_id]]
                 /\ cmh' = [cmh EXCEPT !.hangup_after = SinceTurn(cmh),
                                            !.turn_done = None]
            ELSE /\ loops' = [loops EXCEPT ![i].poll = "closing"]
                 /\ UNCHANGED <<messages, tts_playing, cmh>>
       ELSE UNCHANGED <<loops, messages, tts_playing, cmh>>
    /\ UNCHANGED <<cmFrame, now, current_conversation_id, confirmation_pending,
                   conversations, summaries, is_active, is_listening,
                   is_processing, timers, api_pc>>

\* The prompt has been played on the audio thread: _speak_response clears the
\* flag (line 175), on_hangup sets confirmation_pending and starts the timer
\* (lines 127-137), and the loop breaks (line 143).
PollPrompted(i) ==
    /\ i \in DOMAIN loops
    /\ loops[i].poll = "hangup_speaking"
    /\ Len(timers) < MaxTimers
    /\ tts_playing' = FALSE
    /\ confirmation_pending' = TRUE
    /\ timers' = Append(timers, NewTimer(loops[i].conv.poll))
    /\ loops' = [loops EXCEPT ![i] = [@ EXCEPT !.poll = "closing", !.conv.poll = None]]
    /\ UNCHANGED <<cmFrame, now, current_conversation_id, dbVars, is_active,
                   is_listening, is_processing, api_pc, cmh>>

\* The with block is left once the callback has returned, the stream closes,
\* the finally of lines 147-148 runs, and the locals are gone.
PollClose(i) ==
    /\ i \in DOMAIN loops
    /\ loops[i].poll = "closing"
    /\ loops[i].cb = "idle"
    /\ loops' = [loops EXCEPT ![i] = [NewLoop EXCEPT !.poll = "done"]]
    /\ is_listening' = FALSE
    /\ UNCHANGED <<cmFrame, now, tts_playing, current_conversation_id,
                   confirmation_pending, dbVars, is_active, is_processing,
                   timers, api_pc, cmh>>

\* What audio_callback and the turn it runs read and write besides the
\* manager's fields.
CmState == [loops |-> loops, messages |-> messages, tts_playing |-> tts_playing,
            is_processing |-> is_processing, cmh |-> cmh]

Assign(st) ==
    /\ loops' = st.loops
    /\ messages' = st.messages
    /\ tts_playing' = st.tts_playing
    /\ is_processing' = st.is_processing
    /\ cmh' = st.cmh

\* The end of audio_callback of stream i, lines 118-123, with on_hangup up to
\* set_tts_playing(True) (conversation_manager.py lines 114-124 and 147).
CbReturn(st, i) ==
    IF /\ HangupTimedOut(st.loops[i].last_speech_time, st.is_processing)
       /\ ~confirmation_pending
    THEN [st EXCEPT !.messages = StoreIfCurrent(@, "assistant", ConfirmationMsg),
                    !.tts_playing = TRUE,
                    !.loops[i].cb = "hangup_speaking",
                    !.loops[i].conv.cb = current_conversation_id,
                    !.cmh.hangup_after = SinceTurn(st.cmh),
                    !.cmh.turn_done = None]
    ELSE [st EXCEPT !.loops[i].cb = "idle"]

\* The end-of-utterance test of lines 93-94.
CmEndOfUtterance(frames, silent_frames) ==
    /\ frames >= RefConfig.min
    /\ (silent_frames >= RefConfig.sil \/ frames >= ModerateFrames)

\* The length test of lines 99-103.
LongEnough(frames) == frames * FRAME_DURATION_MS >= MinSpeechMs

\* The buffer after frames.extend(frames[-extra_frames_to_add:]), lines 105-107.
Extended(frames) ==
    frames + (IF RefConfig.extra < frames THEN RefConfig.extra ELSE frames)

\* audio_callback of stream i on frame f, lines 60-123.  A frame below the
\* floor counts as silent and returns at once; a voiced frame is buffered;
\* another frame counts as silent and may end the utterance, which starts
\* _process_audio_frames (lines 152-158) on the callback thread.
audio_callback(st, i, f) ==
    LET lp == st.loops[i] IN
    IF f.amp < Config_AMPLITUDE_THRESHOLD
    THEN [st EXCEPT !.loops[i].silent_frames = @ + 1]
    ELSE IF f.voiced
    THEN CbReturn([st EXCEPT !.loops[i].frames = @ + 1,
                             !.loops[i].silent_frames = 0,
                             !.loops[i].last_speech_time = now,
                             !.cmh.echo = @ \/ st.tts_playing], i)
    ELSE IF CmEndOfUtterance(lp.frames, lp.silent_frames + 1)
    THEN LET ended == [st EXCEPT !.cmh.ended = <<lp.frames, lp.silent_frames + 1>>]
         IN  IF LongEnough(lp.frames)
             THEN [ended EXCEPT !.is_processing = TRUE,
                                !.cmh.echo = @ \/ st.tts_playing,
                                !.loops[i].cb = "transcribing",
                                !.loops[i].frames = Extended(@),
                                !.loops[i].silent_frames = @ + 1]
             ELSE CbReturn([ended EXCEPT !.loops[i].frames = 0,
                                         !.loops[i].silent_frames = 0,
                                         !.cmh.discarded = lp.frames], i)
    ELSE CbReturn([st EXCEPT !.loops[i].silent_frames = @ + 1], i)

\* The streams i.. receive frame f: a callback thread that is busy misses it.
RECURSIVE Deliver(_, _, _)
Deliver(st, i, f) ==
    IF i > Len(st.loops) THEN st
    ELSE Deliver(IF st.loops[i].cb = "idle" THEN audio_callback(st, i, f) ELSE st,
                 i + 1, f)

\* The microphone delivers the next frame of the tape, and every open stream
\* runs audio_callback on it.
MicFrame ==
    /\ pos < Len(tape)
    /\ \E i \in 1..Len(loops) : loops[i].cb = "idle"
    /\ pos' = pos + 1
    /\ Assign(Deliver(CmState, 1, tape[pos + 1]))
    /\ UNCHANGED <<cfg, tape, glitches, conversation_active,
                   last_activity_timestamp, confirmation_time, segVars, ctlVars,
                   histVars, obs, sesVars, now, current_conversation_id,
                   confirmation_pending, conversations, summaries, is_active,
                   is_listening, timers, api_pc>>

\* Whisper answers, lines 161-201: a text goes to on_transcription, which
\* stores it (conversation_manager.py lines 67-77); nothing heard or an
\* exception clears is_processing, and audio_callback goes on at line 111.
CbTranscribe(i) ==
    /\ i \in DOMAIN loops
    /\ loops[i].cb = "transcribing"
    /\ \E text \in {"", "raise", "hello"} :
        IF text = "hello" /\ is_active
        THEN /\ messages' = StoreIfCurrent(messages, "user", text)
             /\ loops' = [loops EXCEPT ![i].cb = "querying"]
             /\ cmh' = [cmh EXCEPT !.answered =
                           IF confirmation_pending THEN current_conversation_id
                           ELSE @]
             /\ UNCHANGED <<tts_playing, is_processing>>
        ELSE Assign(CbReturn([CmState EXCEPT !.is_processing = FALSE,
                                             !.loops[i].frames = 0,
                                             !.loops[i].silent_frames = 0], i))
    /\ UNCHANGED <<cmFrame, now, current_conversation_id, confirmation_pending,
                   conversations, summaries, is_active, is_listening, timers,
                   api_pc>>

\* query_ollama answers or raises, lines 81-100: the reply is stored, and the
\* reply or the error message enters _speak_response (line 147).
CbQuery(i) ==
    /\ i \in DOMAIN loops
    /\ loops[i].cb = "querying"
    /\ \E ok \in BOOLEAN :
        messages' = IF ok THEN StoreIfCurrent(messages, "assistant", "reply")
                    ELSE messages
    /\ tts_playing' = TRUE
    /\ loops' = [loops EXCEPT ![i].cb = "turn_speaking"]
    /\ UNCHANGED <<cmFrame, now, current_conversation_id, confirmation_pending,
                   conversations, summaries, is_active, is_listening,
                   is_processing, timers, api_pc, cmh>>

\* The reply has been played: _speak_response clears the flag (line 175),
\* _process_audio_frames clears is_processing (line 200), audio_callback
\* clears the buffer (lines 111-112) and reaches its hang-up check.
CbSpoken(i) ==
    /\ i \in DOMAIN loops
    /\ loops[i].cb = "turn_speaking"
    /\ Assign(CbReturn([CmState EXCEPT !.tts_playing = FALSE,
                                       !.is_processing = FALSE,
                                       !.loops[i].frames = 0,
                                       !.loops[i].silent_frames = 0,
                                       !.cmh.turn_done = now], i))
    /\ UNCHANGED <<cmFrame, now, current_conversation_id, confirmation_pending,
                   conversations, summaries, is_active, is_listening, timers,
                   api_pc>>

\* The prompt has been played on the callback thread: as PollPrompted, and
\* audio_callback returns (line 123).
CbPrompted(i) ==
    /\ i \in DOMAIN loops
    /\ loops[i].cb = "hangup_speaking"
    /\ Len(timers) < MaxTimers
    /\ tts_playing' = FALSE
    /\ confirmation_pending' = TRUE
    /\ timers' = Append(timers, NewTimer(loops[i].conv.cb))
    /\ loops' = [loops EXCEPT ![i] = [@ EXCEPT !.cb = "idle", !.conv.cb = None]]
    /\ UNCHANGED <<cmFrame, now, current_conversation_id, dbVars, is_active,
                   is_listening, is_processing, api_pc, cmh>>

\* confirmation_timer wakes, lines 132-133: time.sleep returns once
\* CONFIRM_TIMEOUT_SECONDS have passed, and the thread tests the flag.
TimerWake(k) ==
    /\ k \in DOMAIN timers
    /\ timers[k].pc = "sleeping"
    /\ now - timers[k].started >= Config_CONFIRM_TIMEOUT_SECONDS
    /\ timers' = [timers EXCEPT ![k].pc =
                     IF confirmation_pending THEN "stopping" ELSE "done"]
    /\ UNCHANGED <<cmFrame, now, tts_playing, current_conversation_id,
                   confirmation_pending, dbVars, is_active, is_listening,
                   is_processing, loops, api_pc, cmh>>

\* stop_conversation on the timer's thread, lines 48-54.
TimerSummary(k) ==
    /\ k \in DOMAIN timers
    /\ timers[k].pc = "stopping"
    /\ \E ok \in BOOLEAN : summaries' = Summarised(ok)
    /\ cmh' = [cmh EXCEPT !.ended_by = <<timers[k].conv, current_conversation_id,
                                         now - timers[k].started>>]
    /\ timers' = [timers EXCEPT ![k].pc = "restart"]
    /\ is_active' = ActiveAfterStop
    /\ UNCHANGED <<cmFrame, now, tts_playing, current_conversation_id,
                   confirmation_pending, conversations, messages,
                   is_listening, is_processing, loops, api_pc>>

\* stop_conversation on the timer's thread, lines 56-61.
TimerRestart(k) ==
    /\ k \in DOMAIN timers
    /\ timers[k].pc = "restart"
    /\ IF is_active
       THEN start_conversation
       ELSE /\ current_conversation_id' = None
            /\ UNCHANGED <<conversations, is_active, confirmation_pending, loops>>
    /\ timers' = [timers EXCEPT ![k].pc = "done"]
    /\ UNCHANGED <<cmFrame, now, tts_playing, messages, summaries, is_listening,
                   is_processing, api_pc, cmh>>

CmNext ==
    \/ CmTick
    \/ ApiStart
    \/ ApiStop
    \/ ApiRestart
    \/ MicFrame
    \/ \E i \in 1..MaxLoops :
        \/ PollStart(i)
        \/ PollCheck(i)
        \/ PollPrompted(i)
        \/ PollClose(i)
        \/ CbTranscribe(i)
        \/ CbQuery(i)
        \/ CbSpoken(i)
        \/ CbPrompted(i)
    \/ \E k \in 1..MaxTimers :
        \/ TimerWake(k)
        \/ TimerSummary(k)
        \/ TimerRestart(k)

\* The state after import: as Init, with config.py's thresholds and the frames
\* the microphone will deliver.
CmInit ==
    /\ AuxInit
    /\ cfg = RefConfig
    /\ tape \in CmTapes
    /\ pos = 0
    /\ glitches = 0
    /\ tts_playing = FALSE
    /\ now = 0
    /\ current_conversation_id = None
    /\ conversation_active = FALSE
    /\ last_activity_timestamp = None
    /\ confirmation_pending = FALSE
    /\ confirmation_time = None
    /\ conversations = 0
    /\ messages = <<>>
    /\ summaries = <<>>
    /\ buffer_frames = <<>>
    /\ triggered = FALSE
    /\ num_silent = 0
    /\ num_buffered = 0
    /\ extra_i = 0
    /\ pcm_data = <<>>
    /\ pc = "listen"
    /\ transcript = ""
    /\ reply = ""
    /\ speak_arg = ""
    /\ speak_ret = ""
    /\ crashed_by = ""
    /\ heard = <<>>
    /\ extra_heard = <<>>
    /\ clips = <<>>
    /\ saw_clear = FALSE
    /\ muted_iters = 0
    /\ obs = ObsInit

CmSpec == CmInit /\ [][CmNext]_vars

-----------------------------------------------------------------------------
(* Properties of the segmenter, under SegSpec *)

\* The frames of h from its first speech-classified frame on.
SinceSpeech(h) ==
    LET S == {i \in 1..Len(h) : Gate(h[i])}
    IN  IF S = {} THEN <<>>
        ELSE SubSeq(h, CHOOSE i \in S : \A j \in S : i <= j, Len(h))

\* The length of the run of silence-classified frames at the end of s.
TrailingSilence(s) ==
    LET K == {k \in 0..Len(s) : \A i \in (Len(s) - k + 1)..Len(s) : ~Gate(s[i])}
    IN  CHOOSE k \in K : \A m \in K : m <= k

\* The frames read so far in this call end an utterance.
Ended(h) ==
    /\ Len(SinceSpeech(h)) >= cfg.min
    /\ TrailingSilence(SinceSpeech(h)) > cfg.sil

AllButLast(h) == SubSeq(h, 1, Len(h) - 1)

\* C1: while the mute flag tts_playing is set, the capture loop reads and
\* classifies no frame, the segmenter state does not change (it does not leave
\* WAITING) and no clip is emitted; a flag held set from the start leaves every
\* frame of the tape unread and yields zero clips.
C1_Held ==
    ~saw_clear =>
        /\ pos = 0 /\ heard = <<>> /\ glitches = 0
        /\ ~triggered /\ buffer_frames = <<>>
        /\ clips = <<>>
C1_Step ==
    tts_playing =>
        UNCHANGED <<pos, glitches, heard, extra_heard, buffer_frames, triggered,
                    num_silent, num_buffered, pcm_data, clips>>
C1_MuteContract == []C1_Held /\ [][C1_Step]_vars

\* C1 witness: a tape of speech frames only, the flag held set since the start,
\* and the loop has spun on it MaxSpin times.
C1_Witness ==
    /\ tape \in [1..MaxTape -> {Speech}]
    /\ pc = "sip_capture" /\ tts_playing /\ ~saw_clear
    /\ muted_iters = MaxSpin

\* C6: once buffering has started, the loop goes on exactly until at least
\* cfg.min frames are buffered and more than cfg.sil silence frames end them;
\* it then emits exactly one clip: every frame read since the first speech
\* frame, plus at most cfg.extra further frames, after which the buffer is
\* empty and the segmenter is back in WAITING.
C6_State ==
    /\ pc = "sip_capture" =>
          /\ ~Ended(heard)
          /\ buffer_frames = SinceSpeech(heard)
          /\ triggered = (buffer_frames # <<>>)
    /\ pc \in {"sip_extra", "sip_emit"} =>
          /\ Ended(heard) /\ ~Ended(AllButLast(heard))
          /\ buffer_frames = SinceSpeech(heard) \o extra_heard
          /\ Len(extra_heard) <= cfg.extra
    /\ pc = "sip_transcribe" =>
          /\ Ended(heard)
          /\ clips # <<>>
          /\ clips[Len(clips)] = SinceSpeech(heard) \o extra_heard
          /\ pcm_data = clips[Len(clips)]
          /\ Len(extra_heard) <= cfg.extra
          /\ buffer_frames = <<>> /\ ~triggered
          /\ num_silent = 0 /\ num_buffered = 0
C6_Step ==
    clips' # clips =>
        /\ pc = "sip_emit" /\ pc' = "sip_transcribe"
        /\ clips' = Append(clips, SinceSpeech(heard) \o extra_heard)
C7_RefClip ==
    (cfg = RefConfig /\ tape \in RefTapes) =>
        /\ pos < 15 => (pc \in {"sip_listen", "sip_capture"} /\ clips = <<>>)
        /\ (pos >= 15 /\ heard = RefScenario) => pc # "sip_capture"
        /\ (pc = "sip_transcribe" /\ heard = RefScenario /\ Len(extra_heard) = 2) =>
              /\ clips = <<pcm_data>>
              /\ Len(pcm_data) = 12
              /\ pcm_data = SubSeq(tape, 6, 17)

\* C7 witness: the reference scenario has been read and its clip emitted.
C7_Witness ==
    /\ cfg = RefConfig /\ tape \in RefTapes
    /\ pc = "sip_transcribe" /\ heard = RefScenario /\ Len(extra_heard) = 2
    /\ Len(pcm_data) = 12

\* The speech-classified frames among those read by the while loop in this call.
SpeechFrames(h) == {i \in 1..Len(h) : Gate(h[i])}

\* C11: a clip is emitted only after at least cfg.min speech-classified frames:
\* fewer speech frames followed only by silence end no utterance.
C11_NoShortBurst ==
    pc \in {"sip_extra", "sip_emit", "sip_transcribe"} =>
        Cardinality(SpeechFrames(heard)) >= cfg.min

\* Silence as the caller's frames are classified: below the amplitude floor, or
\* rejected by the voice-activity classifier.
Silent(frame) == frame.amp < AMPLITUDE_THRESHOLD \/ ~frame.voiced

RECURSIVE TailSilence(_)
TailSilence(s) ==
    IF s = <<>> \/ ~Silent(s[Len(s)])
    THEN 0
    ELSE 1 + TailSilence(SubSeq(s, 1, Len(s) - 1))

\* C24: at every iteration of the capture loop the buffer is non-empty exactly
\* when triggered, num_buffered is its length and num_silent the silence run
\* at its tail; emitting a clip resets all four locals in one step.
C24_AtIteration ==
    pc = "sip_capture" =>
        /\ (buffer_frames # <<>>) <=> triggered
        /\ num_buffered = Len(buffer_frames)
        /\ num_silent = TailSilence(buffer_frames)
C24_Step ==
    (pc = "sip_emit" /\ pc' # "sip_emit") =>
        /\ clips' = Append(clips, buffer_frames)
        /\ buffer_frames' = <<>>
        /\ ~triggered'
        /\ num_silent' = 0
        /\ num_buffered' = 0
C24_BufferInvariant == []C24_AtIteration /\ [][C24_Step]_vars

\* A clip was emitted and the next call is inside an utterance again, one
\* silence frame after its first speech frame.
C24_Witness ==
    /\ clips # <<>>
    /\ pc = "sip_capture" /\ triggered
    /\ Len(buffer_frames) = 2 /\ num_buffered = 2 /\ num_silent = 1

-----------------------------------------------------------------------------
(* Properties of the main_loop thread, under Spec and FairSpec *)

Sentinels == {"__HANGUP__", "__CONFIRM_TIMEOUT__"}

\* listen_and_transcribe has just returned a caller's words.
UtteranceArrived == pc = "dispatch" /\ transcript \notin Sentinels \cup {""}

\* listen_and_transcribe has just signalled a hang-up.
HangupSignalled == pc = "dispatch" /\ transcript = "__HANGUP__"

\* The pcs of a turn, from the first speak_text to the return of the last.
TurnPcs == SpeakPcs \cup {"greeted", "heard_fb", "query"}

\* C2: whenever speak_text is not running, because it has not been called, has
\* returned or has raised, the mute flag tts_playing is clear.
C2_FlagReleased == tts_playing => pc \in SpeakPcs

\* C3: once an active conversation that is not awaiting a confirmation has been
\* idle for more than HANGUP_TIMEOUT_SECONDS, the thread eventually asks "Are
\* you still there?" and sets confirmation_pending (unless the caller speaks
\* first); and the prompt is only ever spoken while no confirmation is pending.
C3_Once ==
    (pc' = "speak_begin" /\ speak_arg' = "Are you still there?" /\ pc # "speak_begin")
        => ~confirmation_pending
C3_PromptOnce ==
    /\ (HangupDue /\ pc \in ListenPcs) ~> (confirmation_pending \/ UtteranceArrived)
    /\ [][C3_Once]_vars

\* C4: once a confirmation has been pending for more than
\* CONFIRM_TIMEOUT_SECONDS, the thread eventually ends the conversation
\* (conversation_active and confirmation_pending both false) unless the caller
\* speaks first; and no conversation id is summarised twice.
C4_OneSummary ==
    \A i, j \in 1..Len(summaries) : summaries[i] = summaries[j] => i = j
C4_EndsSession ==
    /\ (ConfirmTimedOut /\ pc \in ListenPcs)
          ~> ((~conversation_active /\ ~confirmation_pending) \/ UtteranceArrived)
    /\ []C4_OneSummary

\* C5: from the moment main_loop has taken up an utterance that answers the
\* prompt, and until a new prompt is issued, no confirmation is pending and the
\* conversation is active under the id it had; in the turn the utterance is
\* stored as a user message and the reply is spoken; and a conversation only
\* ends on a confirmation timeout of a prompt that was not answered.
C5_State ==
    /\ (obs.answered /\ pc # "dispatch" /\ pc # "dead") =>
          /\ ~confirmation_pending
          /\ conversation_active
          /\ current_conversation_id = obs.turn_conv
    /\ (obs.answered /\ pc \in TurnPcs) =>
          \E i \in 1..Len(messages) :
              messages[i] = <<obs.turn_conv, "user", transcript>>
    /\ (obs.answered /\ pc \in SpeakPcs /\ speak_ret = "listen") => speak_arg = reply
C5_Step ==
    (conversation_active /\ ~conversation_active') =>
        /\ confirmation_pending
        /\ transcript = "__CONFIRM_TIMEOUT__"
        /\ ~obs.answered
C5_ReplyToPrompt == []C5_State /\ [][C5_Step]_vars

\* C5 witness: the prompt was answered, the turn is over, and the thread
\* listens again long after the answered prompt was issued.
C5_Witness ==
    /\ obs.answered /\ pc = "capture" /\ speak_ret = "listen"
    /\ now - confirmation_time > CONFIRM_TIMEOUT_SECONDS

\* C8: listen_and_transcribe does not return a sentinel while the segmenter is
\* buffering an utterance.
C8_NoDiscard ==
    (pc = "dispatch" /\ transcript \in Sentinels) => ~(triggered /\ buffer_frames # <<>>)

\* C9 as stated: when a hang-up is signalled, more than HANGUP_TIMEOUT_SECONDS
\* have passed since the last playback ended and since the last non-empty
\* transcript, and none of the time since was spent transcribing, generating a
\* reply, synthesizing or playing.
C9_BusyNeverCounts ==
    HangupSignalled =>
        /\ obs.playback_end # None /\ now - obs.playback_end > HANGUP_TIMEOUT_SECONDS
        /\ obs.utterance_at # None /\ now - obs.utterance_at > HANGUP_TIMEOUT_SECONDS
        /\ obs.turn_busy = 0
        /\ obs.transcribing = 0

\* C9 amended: when a hang-up is signalled, more than HANGUP_TIMEOUT_SECONDS
\* have passed since the last playback ended and since the last non-empty
\* transcript was returned, and none of the time since was spent generating a
\* reply, synthesizing or playing; time spent transcribing a clip whose
\* transcript is empty does count.
C9_IdleClock ==
    HangupSignalled =>
        /\ obs.playback_end # None /\ now - obs.playback_end > HANGUP_TIMEOUT_SECONDS
        /\ obs.utterance_at # None /\ now - obs.utterance_at > HANGUP_TIMEOUT_SECONDS
        /\ obs.turn_busy = 0

\* C9 witness: a hang-up is signalled after an idle time part of which went
\* into transcribing a clip without words.
C9_Witness == HangupSignalled /\ obs.transcribing > 0

\* C10: the thread is never ended by a failed transcription, reply, synthesis
\* or playback call or by a failed device read.
C10_LoopSurvives ==
    pc = "dead" => crashed_by \notin {"transcribe", "query", "synthesis", "playback", "read"}

C21_Step ==
    /\ (pc = "query" /\ pc' # "query" /\ obs'.engine_failed) =>
           /\ reply' # ""
           /\ pc' = "speak_begin"
           /\ speak_arg' = reply'
           /\ speak_ret' = "listen"
    /\ (obs.engine_failed /\ speak_ret = "listen" /\ pc \in SpeakPcs) =>
           speak_arg = reply /\ reply # ""
    /\ (obs.engine_failed /\ speak_ret = "listen"
           /\ pc = "speak_finally" /\ pc' = "listen") =>
           /\ last_activity_timestamp' = now
           /\ ~tts_playing'

\* C21: when the request to the model raises, query_ollama returns a
\* non-empty fallback text, main_loop passes that text to speak_text, and when
\* speak_text returns last_activity_timestamp is the time the playback ended.
C21_FallbackSpoken == [][C21_Step]_vars

\* The fallback has been played and main_loop listens again.
C21_Witness ==
    /\ obs.engine_failed
    /\ pc = "listen"
    /\ speak_arg = reply
    /\ reply # ""
    /\ obs.playback_end = now
    /\ last_activity_timestamp = now

C22_Step ==
    /\ obs.synth_failed => pc # "speak_play"
    /\ (pc = "speak_synth" /\ pc' # "speak_synth" /\ obs'.synth_failed) =>
           /\ pc' = "speak_finally"
           /\ UNCHANGED <<convVars, dbVars, crashed_by>>
    /\ (obs.synth_failed /\ pc = "speak_finally" /\ pc' \notin {"speak_finally", "dead"}) =>
           /\ pc' = speak_ret
           /\ ~tts_playing'
           /\ UNCHANGED <<current_conversation_id, conversation_active,
                          confirmation_pending, confirmation_time, dbVars>>

\* C22: when synthesis fails, speak_text does not raise and plays nothing, the
\* conversation stays as it was, and main_loop goes on at the step after the
\* call.
C22_SynthesisFailureSkipsPlayback == [][C22_Step]_vars

\* speak_text has returned to main_loop after a failed synthesis of the reply,
\* and main_loop listens again in the same conversation.
C22_Witness ==
    /\ obs.synth_failed
    /\ pc = "listen"
    /\ speak_ret = "listen"
    /\ conversation_active
    /\ ~tts_playing

\* C25: an empty transcript is no utterance: neither the return of
\* listen_and_transcribe with "" nor main_loop's handling of it stores a
\* message, asks the model, speaks or touches the conversation state, and the
\* loop goes straight back to listening.
C25_Step ==
    /\ (pc = "transcribe" /\ pc' = "dispatch" /\ transcript' = "") =>
           UNCHANGED <<convVars, dbVars, tts_playing, reply, speak_arg, speak_ret>>
    /\ (pc = "dispatch" /\ transcript = "" /\ pc' # "dispatch") =>
           /\ pc' = "listen"
           /\ UNCHANGED <<convVars, dbVars, tts_playing, reply, speak_arg, speak_ret>>
C25_EmptyTranscriptIgnored == [][C25_Step]_vars

\* An empty transcript was handled while the confirmation was pending, some
\* time after the prompt: the prompt is still pending and its clock untouched.
C25_Witness ==
    /\ pc = "listen" /\ transcript = ""
    /\ conversation_active /\ confirmation_pending
    /\ confirmation_time # None /\ now > confirmation_time
    /\ last_activity_timestamp = confirmation_time

\* C28: without a live session no timer fires: listen_and_transcribe returns
\* __HANGUP__ or __CONFIRM_TIMEOUT__ only while conversation_active is true,
\* no confirmation is pending while it is false, and as long as it stays
\* false no prompt is spoken and no summary is made.
C28_Step ==
    /\ (pc = "capture" /\ pc' = "dispatch"
           /\ transcript' \in {"__HANGUP__", "__CONFIRM_TIMEOUT__"}) =>
           conversation_active
    /\ ~conversation_active' => ~confirmation_pending'
    /\ (~conversation_active /\ ~conversation_active') =>
           /\ summaries' = summaries
           /\ messages' = messages
           /\ pc' \notin SpeakPcs \cup {"prompted"}
C28_NoTimerWithoutSession == [][C28_Step]_vars

\* A session has ended and the loop is listening again, the clock past the
\* limit counted from the old confirmation_time.
C28_Witness ==
    /\ ~conversation_active /\ summaries # <<>>
    /\ pc = "capture"
    /\ confirmation_time # None
    /\ now - confirmation_time > CONFIRM_TIMEOUT_SECONDS + TimeUnit

-----------------------------------------------------------------------------
(* Properties of the settings, under SessionSpec *)

\* C16: whatever persona, model and voice a turn of the live conversation has
\* worked with is what start_new_conversation recorded in its row.
C16_SessionConfig ==
    (conversation_active /\ used.conversation_id = current_conversation_id) =>
        LET row == rows[current_conversation_id]
        IN  /\ used.persona_key \in {"", row.persona_key}
            /\ used.llm_model \in {"", row.llm_model}
            /\ used.tts_voice \in {"", row.tts_voice}

-----------------------------------------------------------------------------
(* Properties of the AudioProcessor / ConversationManager pipeline, under CmSpec *)

\* C12: in every segmenter end-of-utterance is declared exactly when the buffer
\* holds at least cfg.min frames and the silence run is strictly longer than
\* cfg.sil: whenever audio_callback has declared an end, it counted more than
\* cfg.sil silent frames.
C12_StrictSilence ==
    cmh.ended # <<>> => (cmh.ended[1] >= cfg.min /\ cmh.ended[2] > cfg.sil)

\* A step in which thread position p of loop i enters the prompt of on_hangup.
PromptBegins(i, p) ==
    loops[i][p] # "hangup_speaking" /\ loops'[i][p] = "hangup_speaking"

C13_Step ==
    /\ \A i \in DOMAIN loops : \A p \in {"poll", "cb"} :
           PromptBegins(i, p) =>
               now - loops[i].last_speech_time > Config_HANGUP_TIMEOUT_SECONDS
    /\ \A k \in DOMAIN timers :
           (timers[k].pc = "sleeping" /\ timers'[k].pc = "stopping") =>
               now - timers[k].started > Config_CONFIRM_TIMEOUT_SECONDS

\* C13: timeout comparisons are strict: the confirmation prompt begins only
\* when strictly more than the hang-up timeout has passed since the last
\* speech, and the confirmation timer ends the conversation only when strictly
\* more than the confirmation timeout has passed since the prompt.
C13_StrictTimeouts == [][C13_Step]_vars

\* The threads inside _speak_response, and the callback threads in a turn.
Speaking ==
    {t \in (DOMAIN loops) \X {"poll", "cb"} :
        loops[t[1]][t[2]] \in {"hangup_speaking", "turn_speaking"}}

InTurn ==
    {i \in DOMAIN loops : loops[i].cb \in {"transcribing", "querying", "turn_speaking"}}

\* C14: no turn or system utterance begins before the previous one's playback
\* has finished: at no time are two playbacks (the confirmation prompt
\* included) or two turns in progress.
C14_HalfDuplex ==
    /\ Cardinality(Speaking) <= 1
    /\ Cardinality(InTurn) <= 1
    /\ (InTurn # {} /\ Speaking # {}) => \A t \in Speaking : t[1] \in InTurn /\ t[2] = "cb"

\* The audio threads inside listen_and_transcribe.
Running == {i \in DOMAIN loops : loops[i].poll \notin {"start", "done"}}

\* C15: after any interleaving of start_conversation and stop_conversation
\* calls at most one capture loop is running.
C15_OneLoop == Cardinality(Running) <= 1

\* C17: while the TTS-playing flag is set, audio_callback appends no frame to
\* the utterance buffer and triggers no transcription.
C17_MutedWhilePlaying == ~cmh.echo

\* C18: an utterance taken up while the confirmation is pending clears
\* confirmation_pending when its turn is over, and the confirmation timer does
\* not end the conversation it was spoken in.
C18_ReplyKeepsConversation ==
    /\ (cmh.answered # None /\ cmh.answered = current_conversation_id /\ InTurn = {})
           => ~confirmation_pending
    /\ (cmh.answered # None /\ cmh.ended_by # <<>>) => cmh.ended_by[2] # cmh.answered

\* The prompts of conversation c: those being spoken and those whose timer
\* has been started.
PromptsOf(c) ==
    Cardinality({t \in Speaking : loops[t[1]].conv[t[2]] = c})
    + Cardinality({k \in DOMAIN timers : timers[k].conv = c})

\* C19: for one hang-up timeout the confirmation prompt is spoken and the
\* confirmation timer started once: no conversation has two prompts.
C19_OnePrompt == \A c \in 1..conversations : PromptsOf(c) <= 1

\* C20: a confirmation timer ends and summarizes only the conversation its
\* prompt was spoken in, and no conversation is summarized twice.
C20_OwnConversationOnce ==
    /\ cmh.ended_by # <<>> => cmh.ended_by[1] = cmh.ended_by[2]
    /\ \A a, b \in DOMAIN summaries : summaries[a] = summaries[b] => a = b

\* C26: on_hangup is called no sooner than HANGUP_TIMEOUT_SECONDS after the
\* playback of the most recent turn's reply finished.
C26_HangupCountsSilence ==
    cmh.hangup_after # None => cmh.hangup_after >= Config_HANGUP_TIMEOUT_SECONDS

\* C27: a buffer of at least MIN_UTTERANCE_FRAMES speech frames followed by
\* silence is handed to _process_audio_frames, never cleared unprocessed.
C27_UtteranceProcessed ==
    cmh.discarded < RefConfig.min

\* C29: the reply of a turn is stored in the conversation in which the turn's
\* user message was stored: every stored reply follows a user message with the
\* same conversation id, and no message is stored without an id.
C29_OneTurnOneSession ==
    \A k \in 1..Len(messages) :
        /\ messages[k][1] # None
        /\ (messages[k][2] = "assistant" /\ messages[k][3] = "reply") =>
               \E j \in 1..(k - 1) :
                   messages[j] = insert_message(messages[k][1], "user", "hello")

\* What start_conversation leaves behind: the next id, is_active set, no
\* confirmation pending and one more audio thread, just started.
StartedAnew ==
    /\ is_active'
    /\ conversations' = conversations + 1
    /\ current_conversation_id' = conversations'
    /\ ~confirmation_pending'
    /\ loops' = Append(loops, NewLoop)

\* C30: is_active never goes back to false and is true once a conversation
\* has been started; every stop_conversation, on the request thread or on a
\* timer's, ends in start_conversation; and while is_active the request to
\* start a conversation starts none.
C30_Step ==
    /\ is_active => is_active'
    /\ conversations' > 0 => is_active'
    /\ (api_pc = "restart" /\ api_pc' = "idle") => StartedAnew
    /\ \A k \in DOMAIN timers :
           (timers[k].pc = "restart" /\ timers'[k].pc = "done") => StartedAnew
    /\ (is_active /\ api_pc = "idle" /\ api_pc' = "idle" /\ timers' = timers) =>
           conversations' = conversations
C30_ActiveIsMonotone == [][C30_Step]_vars

\* A timer thread has stopped conversation 1 and started conversation 2.
C30_Witness ==
    /\ is_active /\ conversations = 2 /\ current_conversation_id = 2
    /\ api_pc = "idle"
    /\ cmh.ended_by # <<>> /\ cmh.ended_by[2] = 1
    /\ \E k \in DOMAIN timers : timers[k].pc = "done" /\ timers[k].conv = 1

====
